---- MODULE Spec2Model ----
(***************************************************************************)
(* Model of google/colab/_reprs.py: the enable/disable toggles that        *)
(* install rich-representation callbacks in the IPython display-formatter  *)
(* registry, and the dataframe intrinsic renderer.                         *)
(*                                                                         *)
(* The registry is the one IPython keeps per shell: a dict from MIME type  *)
(* to a formatter object, each formatter holding two dicts, type_printers  *)
(* (keyed by class) and deferred_printers (keyed by (module, name)).  The  *)
(* formatter methods the module calls (for_type, for_type_by_name, pop,    *)
(* lookup_by_type) are modelled by what they do to those two dicts.        *)
(***************************************************************************)
EXTENDS Integers, Sequences, FiniteSets, TLC

VARIABLES
  session,                                \* what IPython.get_ipython() finds
  formatters,                             \* shell.display_formatter.formatters
  original_string_formatters,             \* _original_string_formatters
  original_df_formatters,                 \* _original_df_formatters
  original_dataframe_metadata_formatters, \* _original_dataframe_metadata_formatters
  raised,                                 \* exception the last call raised
  lastCall,                               \* the last call made
  pre,                                    \* history: slot callback before enable
  inert,                                  \* history: features enabled with no session
  registry0,                              \* history: the registry at the start
  user_ns,                                \* ip.user_ns without its 'In' entry
  In,                                     \* ip.user_ns['In']
  displayed,                              \* the object handed to the renderer
  result                                  \* what the renderer returned or raised

vars == <<session, formatters, original_string_formatters,
          original_df_formatters, original_dataframe_metadata_formatters,
          raised, lastCall, pre, inert, registry0, user_ns, In, displayed,
          result>>

render_vars == <<user_ns, In, displayed, result>>

records == <<original_string_formatters, original_df_formatters,
             original_dataframe_metadata_formatters>>

----------------------------------------------------------------------------
(* Names *)

INTRINSIC_MIME_TYPE == "application/vnd.google.colaboratory.intrinsic+json"

HTML_MIME_TYPE == "text/html"

MimeTypes == {INTRINSIC_MIME_TYPE, HTML_MIME_TYPE}

Features == {"string", "dataframe_metadata", "df_style"}

\* Classes that key the dispatch tables.  A class and its (module, name)
\* pair are written with the same string: "DataFrame" stands both for the
\* class pandas.core.frame.DataFrame and for ('pandas.core.frame',
\* 'DataFrame'), so IPython's _mod_name_key is the identity here.
Types == {"str", "object", "DataFrame", "Styler"}

\* Method resolution order of each class (pretty._get_mro).
Mro(typ) == IF typ = "object" THEN <<"object">> ELSE <<typ, "object">>

\* Callbacks the host may have registered before this module runs.
HostCallbacks == {"h1", "h2"}

\* The callback each feature installs.
Renderer(f) ==
  CASE f = "string" -> "_string_intrinsic_repr"
    [] f = "dataframe_metadata" -> "_dataframe_intrinsic_repr"
    [] f = "df_style" -> "new_formatter"

\* Python's None, and the mark of a key a dict does not hold.
None == "None"

ABSENT == "absent"

\* The MIME type and the class of each feature's slot.
MimeOf(f) == IF f = "df_style" THEN HTML_MIME_TYPE ELSE INTRINSIC_MIME_TYPE

TypeOf(f) ==
  CASE f = "string" -> "str"
    [] f = "dataframe_metadata" -> "DataFrame"
    [] f = "df_style" -> "Styler"

----------------------------------------------------------------------------
(* Python dicts with at most one key (the three module-level records) *)

EmptyDict == [k \in {} |-> None]

\* As KeyIn, but testing the stored value for truth (d.get(k)) instead of
\* the key for membership: a saved None then counts as no record.
KeyIn_truthy(d, k) == k \in DOMAIN d /\ d[k] # None

\* key in d
KeyIn(d, k) == k \in DOMAIN d

DictSet(d, k, v) == [x \in DOMAIN d \cup {k} |-> IF x = k THEN v ELSE d[x]]

\* As DictPop, but leaving the key in place.
DictPop_keep(d, k) == d

DictPop(d, k) == [x \in DOMAIN d \ {k} |-> d[x]]

----------------------------------------------------------------------------
(* IPython.core.formatters.BaseFormatter *)

\* A new formatter: both dicts empty.
IntrinsicTypeFormatter ==
  [type_printers |-> [t \in Types |-> ABSENT],
   deferred_printers |-> [t \in Types |-> ABSENT]]

\* lookup_by_type(typ) for a class: walk the MRO; the first class found in
\* type_printers wins; a class found in deferred_printers is first moved to
\* type_printers (_in_deferred_types).
RECURSIVE MroScan(_, _, _)
MroScan(tbl, mro, i) ==
  IF i > Len(mro)
  THEN [table |-> tbl, found |-> FALSE, func |-> None]
  ELSE LET cls == mro[i] IN
       IF tbl.type_printers[cls] # ABSENT
       THEN [table |-> tbl, found |-> TRUE, func |-> tbl.type_printers[cls]]
       ELSE IF tbl.deferred_printers[cls] # ABSENT
       THEN [table |-> [type_printers |->
                          [tbl.type_printers EXCEPT ![cls] = tbl.deferred_printers[cls]],
                        deferred_printers |->
                          [tbl.deferred_printers EXCEPT ![cls] = ABSENT]],
             found |-> TRUE, func |-> tbl.deferred_printers[cls]]
       ELSE MroScan(tbl, mro, i + 1)

LookupByType(tbl, typ) == MroScan(tbl, Mro(typ), 1)

\* lookup_by_type('module.name'): deferred_printers first, then the class of
\* that name in type_printers; no MRO walk and nothing is moved.
LookupByName(tbl, typ) ==
  IF tbl.deferred_printers[typ] # ABSENT
  THEN [found |-> TRUE, func |-> tbl.deferred_printers[typ]]
  ELSE IF tbl.type_printers[typ] # ABSENT
  THEN [found |-> TRUE, func |-> tbl.type_printers[typ]]
  ELSE [found |-> FALSE, func |-> None]

\* As ForType, but registering func even when it is None.
ForType_alwaysSet(tbl, typ, func) ==
  LET l == LookupByType(tbl, typ)
      oldfunc == IF l.found THEN l.func ELSE None
  IN [table |-> [l.table EXCEPT !.type_printers[typ] = func],
      old |-> oldfunc]

\* for_type(typ, func): returns the callable registered so far (None on
\* KeyError) and registers func in type_printers unless func is None.
ForType(tbl, typ, func) ==
  LET l == LookupByType(tbl, typ)
      oldfunc == IF l.found THEN l.func ELSE None
  IN [table |-> IF func # None
                THEN [l.table EXCEPT !.type_printers[typ] = func]
                ELSE l.table,
      old |-> oldfunc]

\* for_type_by_name(module, name, func): the same through deferred_printers.
ForTypeByName(tbl, typ, func) ==
  LET l == LookupByName(tbl, typ)
      oldfunc == IF l.found THEN l.func ELSE None
  IN [table |-> IF func # None
                THEN [tbl EXCEPT !.deferred_printers[typ] = func]
                ELSE tbl,
      old |-> oldfunc]

\* As PopType, but reading the entry without removing it.
PopType_keep(tbl, typ) ==
  IF tbl.type_printers[typ] # ABSENT \/ tbl.deferred_printers[typ] # ABSENT
  THEN [table |-> tbl, keyError |-> FALSE]
  ELSE [table |-> tbl, keyError |-> TRUE]

\* pop(typ) with a class: type_printers first, else deferred_printers, else
\* KeyError.
PopType(tbl, typ) ==
  IF tbl.type_printers[typ] # ABSENT
  THEN [table |-> [tbl EXCEPT !.type_printers[typ] = ABSENT], keyError |-> FALSE]
  ELSE IF tbl.deferred_printers[typ] # ABSENT
  THEN [table |-> [tbl EXCEPT !.deferred_printers[typ] = ABSENT], keyError |-> FALSE]
  ELSE [table |-> tbl, keyError |-> TRUE]

\* pop('module.name'): deferred_printers first, else the class of that name
\* in type_printers, else KeyError.
PopName(tbl, typ) ==
  IF tbl.deferred_printers[typ] # ABSENT
  THEN [table |-> [tbl EXCEPT !.deferred_printers[typ] = ABSENT], keyError |-> FALSE]
  ELSE IF tbl.type_printers[typ] # ABSENT
  THEN [table |-> [tbl EXCEPT !.type_printers[typ] = ABSENT], keyError |-> FALSE]
  ELSE [table |-> tbl, keyError |-> TRUE]

----------------------------------------------------------------------------
(* The module *)

\* IPython.get_ipython(): the shell, or None before it exists and after it
\* is gone.
GetIPython(s) == s = "present"

\* As RegisterIntrinsicMimetype, without the test for a shell.
RegisterIntrinsicMimetype_noShellTest(fmts, s) ==
  IF INTRINSIC_MIME_TYPE \in DOMAIN fmts THEN fmts
  ELSE DictSet(fmts, INTRINSIC_MIME_TYPE, IntrinsicTypeFormatter)

\* As RegisterIntrinsicMimetype, but assigning the new formatter whether or
\* not the registry has one.
RegisterIntrinsicMimetype_replace(fmts, s) ==
  IF ~GetIPython(s) THEN fmts
  ELSE DictSet(fmts, INTRINSIC_MIME_TYPE, IntrinsicTypeFormatter)

\* _register_intrinsic_mimetype(): the registry it leaves.
RegisterIntrinsicMimetype(fmts, s) ==
  IF ~GetIPython(s) THEN fmts
  ELSE IF INTRINSIC_MIME_TYPE \in DOMAIN fmts THEN fmts
  ELSE DictSet(fmts, INTRINSIC_MIME_TYPE, IntrinsicTypeFormatter)

\* The callable for_type / for_type_by_name would report for a feature's
\* slot (None when the lookup raises KeyError or the table does not exist).
CurrentCallback(fmts, f) ==
  IF MimeOf(f) \notin DOMAIN fmts THEN None
  ELSE IF f = "string"
  THEN LET l == LookupByType(fmts[MimeOf(f)], TypeOf(f)) IN
       IF l.found THEN l.func ELSE None
  ELSE LET l == LookupByName(fmts[MimeOf(f)], TypeOf(f)) IN
       IF l.found THEN l.func ELSE None

\* The call made; the toggles and the host leave the renderer's inputs alone.
Called(op, f, eff) ==
  /\ lastCall' = [op |-> op, f |-> f, effective |-> eff]
  /\ UNCHANGED <<render_vars, registry0>>

\* enable_string_repr()
enable_string_repr ==
  LET key == INTRINSIC_MIME_TYPE IN
  IF ~KeyIn(original_string_formatters, key)
  THEN LET registered == RegisterIntrinsicMimetype(formatters, session) IN
       IF ~GetIPython(session)
       THEN /\ formatters' = registered
            /\ inert' = inert \cup {"string"}
            /\ raised' = "none"
            /\ Called("enable", "string", FALSE)
            /\ UNCHANGED <<session, records, pre>>
       ELSE LET r == ForType(registered[key], "str", "_string_intrinsic_repr") IN
            /\ formatters' = [registered EXCEPT ![key] = r.table]
            /\ original_string_formatters' =
                 DictSet(original_string_formatters, key, r.old)
            /\ pre' = [pre EXCEPT !["string"] = CurrentCallback(formatters, "string")]
            /\ raised' = "none"
            /\ Called("enable", "string", TRUE)
            /\ UNCHANGED <<session, original_df_formatters,
                           original_dataframe_metadata_formatters, inert>>
  ELSE /\ raised' = "none"
       /\ Called("enable", "string", FALSE)
       /\ UNCHANGED <<session, formatters, records, pre, inert>>

\* disable_string_repr()
disable_string_repr ==
  LET key == INTRINSIC_MIME_TYPE IN
  IF KeyIn(original_string_formatters, key)
  THEN IF ~GetIPython(session)
       THEN \* None has no attribute display_formatter
            /\ raised' = "AttributeError"
            /\ Called("disable", "string", FALSE)
            /\ UNCHANGED <<session, formatters, records, pre, inert>>
       ELSE IF key \notin DOMAIN formatters
       THEN /\ raised' = "KeyError"
            /\ Called("disable", "string", FALSE)
            /\ UNCHANGED <<session, formatters, records, pre, inert>>
       ELSE LET p == PopType(formatters[key], "str") IN
            IF p.keyError
            THEN /\ raised' = "KeyError"
                 /\ Called("disable", "string", FALSE)
                 /\ UNCHANGED <<session, formatters, records, pre, inert>>
            ELSE LET r == ForType(p.table, "str", original_string_formatters[key]) IN
                 /\ formatters' = [formatters EXCEPT ![key] = r.table]
                 /\ original_string_formatters' =
                      DictPop(original_string_formatters, key)
                 /\ raised' = "none"
                 /\ Called("disable", "string", TRUE)
                 /\ UNCHANGED <<session, original_df_formatters,
                                original_dataframe_metadata_formatters, pre, inert>>
  ELSE /\ raised' = "none"
       /\ Called("disable", "string", FALSE)
       /\ UNCHANGED <<session, formatters, records, pre, inert>>

\* enable_df_style_formatter()
enable_df_style_formatter ==
  LET key == HTML_MIME_TYPE IN
  IF KeyIn(original_df_formatters, key)
  THEN /\ raised' = "none"
       /\ Called("enable", "df_style", FALSE)
       /\ UNCHANGED <<session, formatters, records, pre, inert>>
  ELSE IF ~GetIPython(session)
  THEN /\ inert' = inert \cup {"df_style"}
       /\ raised' = "none"
       /\ Called("enable", "df_style", FALSE)
       /\ UNCHANGED <<session, formatters, records, pre>>
  ELSE LET r == ForTypeByName(formatters[key], "Styler", "new_formatter") IN
       /\ formatters' = [formatters EXCEPT ![key] = r.table]
       /\ original_df_formatters' = DictSet(original_df_formatters, key, r.old)
       /\ pre' = [pre EXCEPT !["df_style"] = CurrentCallback(formatters, "df_style")]
       /\ raised' = "none"
       /\ Called("enable", "df_style", TRUE)
       /\ UNCHANGED <<session, original_string_formatters,
                      original_dataframe_metadata_formatters, inert>>

\* As disable_df_style_formatter, without the early return: the record is
\* popped with a default of None.
disable_df_style_formatter_unguarded ==
  LET key == HTML_MIME_TYPE IN
  IF ~GetIPython(session)
  THEN /\ raised' = "AttributeError"
       /\ Called("disable", "df_style", FALSE)
       /\ UNCHANGED <<session, formatters, records, pre, inert>>
  ELSE LET p == PopName(formatters[key], "Styler") IN
       IF p.keyError
       THEN /\ raised' = "KeyError"
            /\ Called("disable", "df_style", FALSE)
            /\ UNCHANGED <<session, formatters, records, pre, inert>>
       ELSE LET saved == IF KeyIn(original_df_formatters, key)
                         THEN original_df_formatters[key] ELSE None
                r == ForTypeByName(p.table, "Styler", saved) IN
            /\ formatters' = [formatters EXCEPT ![key] = r.table]
            /\ original_df_formatters' = DictPop(original_df_formatters, key)
            /\ raised' = "none"
            /\ Called("disable", "df_style", KeyIn(original_df_formatters, key))
            /\ UNCHANGED <<session, original_string_formatters,
                           original_dataframe_metadata_formatters, pre, inert>>

\* disable_df_style_formatter()
disable_df_style_formatter ==
  LET key == HTML_MIME_TYPE IN
  IF ~KeyIn(original_df_formatters, key)
  THEN /\ raised' = "none"
       /\ Called("disable", "df_style", FALSE)
       /\ UNCHANGED <<session, formatters, records, pre, inert>>
  ELSE IF ~GetIPython(session)
  THEN /\ raised' = "AttributeError"
       /\ Called("disable", "df_style", FALSE)
       /\ UNCHANGED <<session, formatters, records, pre, inert>>
  ELSE LET p == PopName(formatters[key], "Styler") IN
       IF p.keyError
       THEN /\ raised' = "KeyError"
            /\ Called("disable", "df_style", FALSE)
            /\ UNCHANGED <<session, formatters, records, pre, inert>>
       ELSE LET r == ForTypeByName(p.table, "Styler", original_df_formatters[key]) IN
            /\ formatters' = [formatters EXCEPT ![key] = r.table]
            /\ original_df_formatters' = DictPop(original_df_formatters, key)
            /\ raised' = "none"
            /\ Called("disable", "df_style", TRUE)
            /\ UNCHANGED <<session, original_string_formatters,
                           original_dataframe_metadata_formatters, pre, inert>>

\* enable_dataframe_metadata_repr()
enable_dataframe_metadata_repr ==
  LET key == INTRINSIC_MIME_TYPE IN
  IF ~KeyIn(original_dataframe_metadata_formatters, key)
  THEN LET registered == RegisterIntrinsicMimetype(formatters, session) IN
       IF ~GetIPython(session)
       THEN /\ formatters' = registered
            /\ inert' = inert \cup {"dataframe_metadata"}
            /\ raised' = "none"
            /\ Called("enable", "dataframe_metadata", FALSE)
            /\ UNCHANGED <<session, records, pre>>
       ELSE LET r == ForTypeByName(registered[key], "DataFrame",
                                   "_dataframe_intrinsic_repr") IN
            /\ formatters' = [registered EXCEPT ![key] = r.table]
            /\ original_dataframe_metadata_formatters' =
                 DictSet(original_dataframe_metadata_formatters, key, r.old)
            /\ pre' = [pre EXCEPT !["dataframe_metadata"] =
                         CurrentCallback(formatters, "dataframe_metadata")]
            /\ raised' = "none"
            /\ Called("enable", "dataframe_metadata", TRUE)
            /\ UNCHANGED <<session, original_string_formatters,
                           original_df_formatters, inert>>
  ELSE /\ raised' = "none"
       /\ Called("enable", "dataframe_metadata", FALSE)
       /\ UNCHANGED <<session, formatters, records, pre, inert>>

\* As disable_dataframe_metadata_repr, but with the string feature's record
\* map in place of its own.
disable_dataframe_metadata_repr_stringRecord ==
  LET key == INTRINSIC_MIME_TYPE IN
  IF KeyIn(original_string_formatters, key)
  THEN IF ~GetIPython(session)
       THEN /\ raised' = "AttributeError"
            /\ Called("disable", "dataframe_metadata", FALSE)
            /\ UNCHANGED <<session, formatters, records, pre, inert>>
       ELSE IF key \notin DOMAIN formatters
       THEN /\ raised' = "KeyError"
            /\ Called("disable", "dataframe_metadata", FALSE)
            /\ UNCHANGED <<session, formatters, records, pre, inert>>
       ELSE LET p == PopName(formatters[key], "DataFrame") IN
            IF p.keyError
            THEN /\ raised' = "KeyError"
                 /\ Called("disable", "dataframe_metadata", FALSE)
                 /\ UNCHANGED <<session, formatters, records, pre, inert>>
            ELSE LET r == ForTypeByName(p.table, "DataFrame",
                            original_string_formatters[key]) IN
                 /\ formatters' = [formatters EXCEPT ![key] = r.table]
                 /\ original_string_formatters' =
                      DictPop(original_string_formatters, key)
                 /\ raised' = "none"
                 /\ Called("disable", "dataframe_metadata", TRUE)
                 /\ UNCHANGED <<session, original_df_formatters,
                                original_dataframe_metadata_formatters, pre, inert>>
  ELSE /\ raised' = "none"
       /\ Called("disable", "dataframe_metadata", FALSE)
       /\ UNCHANGED <<session, formatters, records, pre, inert>>

\* disable_dataframe_metadata_repr()
disable_dataframe_metadata_repr ==
  LET key == INTRINSIC_MIME_TYPE IN
  IF KeyIn(original_dataframe_metadata_formatters, key)
  THEN IF ~GetIPython(session)
       THEN /\ raised' = "AttributeError"
            /\ Called("disable", "dataframe_metadata", FALSE)
            /\ UNCHANGED <<session, formatters, records, pre, inert>>
       ELSE IF key \notin DOMAIN formatters
       THEN /\ raised' = "KeyError"
            /\ Called("disable", "dataframe_metadata", FALSE)
            /\ UNCHANGED <<session, formatters, records, pre, inert>>
       ELSE LET p == PopName(formatters[key], "DataFrame") IN
            IF p.keyError
            THEN /\ raised' = "KeyError"
                 /\ Called("disable", "dataframe_metadata", FALSE)
                 /\ UNCHANGED <<session, formatters, records, pre, inert>>
            ELSE LET r == ForTypeByName(p.table, "DataFrame",
                            original_dataframe_metadata_formatters[key]) IN
                 /\ formatters' = [formatters EXCEPT ![key] = r.table]
                 /\ original_dataframe_metadata_formatters' =
                      DictPop(original_dataframe_metadata_formatters, key)
                 /\ raised' = "none"
                 /\ Called("disable", "dataframe_metadata", TRUE)
                 /\ UNCHANGED <<session, original_string_formatters,
                                original_df_formatters, pre, inert>>
  ELSE /\ raised' = "none"
       /\ Called("disable", "dataframe_metadata", FALSE)
       /\ UNCHANGED <<session, formatters, records, pre, inert>>

----------------------------------------------------------------------------
(* The host *)

\* The record map of a feature.
RecordOf(f) ==
  CASE f = "string" -> original_string_formatters
    [] f = "dataframe_metadata" -> original_dataframe_metadata_formatters
    [] f = "df_style" -> original_df_formatters

\* The host formats an object of class typ for a MIME type: the lookup
\* moves a deferred printer of a class on the MRO to type_printers.
Display ==
  \E m \in MimeTypes, typ \in Types :
    /\ GetIPython(session)
    /\ m \in DOMAIN formatters
    /\ formatters' = [formatters EXCEPT ![m] = LookupByType(formatters[m], typ).table]
    /\ raised' = "none"
    /\ Called("display", "-", FALSE)
    /\ UNCHANGED <<session, records, pre, inert>>

\* The interactive shell comes into existence.
SessionStart ==
  /\ session = "none_yet"
  /\ session' = "present"
  /\ raised' = "none"
  /\ Called("session", "-", FALSE)
  /\ UNCHANGED <<formatters, records, pre, inert>>

\* The interactive shell goes away; a process has one shell at most.
SessionEnd ==
  /\ session = "present"
  /\ session' = "ended"
  /\ raised' = "none"
  /\ Called("session", "-", FALSE)
  /\ UNCHANGED <<formatters, records, pre, inert>>

----------------------------------------------------------------------------
(* Initial registries: what the host may have registered beforehand *)

Slot(S) == S \cup {ABSENT}

InitHtmlTables ==
  {[type_printers |-> [t \in Types |-> IF t = "Styler" THEN a ELSE ABSENT],
    deferred_printers |-> [t \in Types |-> IF t = "Styler" THEN b ELSE ABSENT]] :
     a \in Slot({"h1"}), b \in Slot(HostCallbacks)}

InitIntrinsicTables ==
  {[type_printers |-> [t \in Types |->
       CASE t = "str" -> a [] t = "object" -> c [] t = "DataFrame" -> d
         [] OTHER -> ABSENT],
    deferred_printers |-> [t \in Types |->
       CASE t = "str" -> b [] t = "DataFrame" -> e [] OTHER -> ABSENT]] :
     a \in Slot({"h1"}), b \in Slot({"h2"}), c \in Slot({"h2"}),
     d \in Slot({"h1"}), e \in Slot({"h2"})}

InitFormatters ==
  {[m \in {HTML_MIME_TYPE} |-> h] : h \in InitHtmlTables}
  \cup {[m \in MimeTypes |-> IF m = HTML_MIME_TYPE THEN h ELSE i] :
          h \in InitHtmlTables, i \in InitIntrinsicTables}

\* A shell that is yet to come into existence starts with IPython's own
\* tables, so without one for the intrinsic MIME type.
Init ==
  /\ session \in {"none_yet", "present"}
  /\ formatters \in InitFormatters
  /\ session = "none_yet" => INTRINSIC_MIME_TYPE \notin DOMAIN formatters
  /\ registry0 = formatters
  /\ original_string_formatters = EmptyDict
  /\ original_df_formatters = EmptyDict
  /\ original_dataframe_metadata_formatters = EmptyDict
  /\ raised = "none"
  /\ lastCall = [op |-> "none", f |-> "-", effective |-> FALSE]
  /\ pre = [f \in Features |-> "unset"]
  /\ inert = {}
  /\ user_ns = <<>>
  /\ In = [present |-> FALSE, lines |-> <<>>]
  /\ displayed = "A"
  /\ result = [raised |-> "pending", payload |-> EmptyDict]

Next ==
  \/ enable_string_repr
  \/ disable_string_repr
  \/ enable_df_style_formatter
  \/ disable_df_style_formatter
  \/ enable_dataframe_metadata_repr
  \/ disable_dataframe_metadata_repr
  \/ Display
  \/ SessionStart
  \/ SessionEnd

Spec == Init /\ [][Next]_vars

----------------------------------------------------------------------------
(* The toggles with a host that writes to the registry *)

\* While a feature is enabled and its slot still reports the feature's
\* renderer, the host registers a callback of its own for the feature's
\* class, through for_type (by class) or for_type_by_name.
HostReplace ==
  \E f \in Features, h \in {"h2"}, byClass \in BOOLEAN :
    /\ GetIPython(session)
    /\ KeyIn(RecordOf(f), MimeOf(f))
    /\ MimeOf(f) \in DOMAIN formatters
    /\ CurrentCallback(formatters, f) = Renderer(f)
    /\ formatters' =
         [formatters EXCEPT ![MimeOf(f)] =
            IF byClass THEN ForType(@, TypeOf(f), h).table
            ELSE ForTypeByName(@, TypeOf(f), h).table]
    /\ raised' = "none"
    /\ Called("host", f, FALSE)
    /\ UNCHANGED <<session, records, pre, inert>>

\* The callback the host registers later ("h2") is none of those registered
\* at the start.
InitHost ==
  /\ Init
  /\ session = "present"
  /\ \A m \in DOMAIN formatters, t \in Types :
       /\ formatters[m].type_printers[t] # "h2"
       /\ formatters[m].deferred_printers[t] # "h2"

NextHost ==
  \/ enable_string_repr
  \/ disable_string_repr
  \/ enable_df_style_formatter
  \/ disable_df_style_formatter
  \/ enable_dataframe_metadata_repr
  \/ disable_dataframe_metadata_repr
  \/ Display
  \/ HostReplace

SpecHost == InitHost /\ [][NextHost]_vars

----------------------------------------------------------------------------
(* The dataframe renderer: its inputs *)

MAX_DATAFRAME_ROWS == 100000

MAX_DATAFRAME_COLS == 20

\* Bounds of the inputs drawn: entries of the namespace, lines of history.
MaxNs == 2

MaxHist == 1

\* The objects that may be displayed or bound in the namespace.  A and B are
\* two distinct dataframes with equal contents; X is not a dataframe and has
\* no len(); the computation of Bad's summary raises.
Objects ==
  [o \in {"A", "B", "Big", "Max", "Wide", "Bad", "X"} |->
     CASE o = "A" -> [isDataFrame |-> TRUE, lenFails |-> FALSE, rows |-> 5, cols |-> 3,
                      computeFails |-> FALSE, value |-> "v1", text |-> "summary(v1)"]
       [] o = "B" -> [isDataFrame |-> TRUE, lenFails |-> FALSE, rows |-> 5, cols |-> 3,
                      computeFails |-> FALSE, value |-> "v1", text |-> "summary(v1)"]
       [] o = "Big" -> [isDataFrame |-> TRUE, lenFails |-> FALSE,
                        rows |-> MAX_DATAFRAME_ROWS + 1, cols |-> 3,
                        computeFails |-> FALSE, value |-> "v2", text |-> "summary(v2)"]
       [] o = "Max" -> [isDataFrame |-> TRUE, lenFails |-> FALSE,
                        rows |-> MAX_DATAFRAME_ROWS, cols |-> MAX_DATAFRAME_COLS,
                        computeFails |-> FALSE, value |-> "v3", text |-> "summary(v3)"]
       [] o = "Wide" -> [isDataFrame |-> TRUE, lenFails |-> FALSE, rows |-> 5,
                         cols |-> MAX_DATAFRAME_COLS + 1,
                         computeFails |-> FALSE, value |-> "v4", text |-> "summary(v4)"]
       [] o = "Bad" -> [isDataFrame |-> TRUE, lenFails |-> FALSE, rows |-> 5, cols |-> 3,
                        computeFails |-> TRUE, value |-> "v5", text |-> "summary(v5)"]
       [] o = "X" -> [isDataFrame |-> FALSE, lenFails |-> TRUE, rows |-> 0, cols |-> 0,
                      computeFails |-> TRUE, value |-> "v6", text |-> "summary(v6)"]]

\* Text is a sequence of one-character strings.
N_df == <<"d", "f">>

N_udf == <<"_", "d", "f">>

N_t == <<"t">>

Names == {N_df, N_udf, N_t}

HeadCall == <<".", "h", "e", "a", "d", "(", ")">>

\* Last input lines: df.head()  print(df)  df.tail()  ' df.head()'  t.head(5
\* df  _df.head()  df.x.head()  1f.head()  and the empty line.
Lines ==
  { N_df \o HeadCall,
    <<"p", "r", "i", "n", "t", "(", "d", "f", ")">>,
    N_df \o <<".", "t", "a", "i", "l", "(", ")">>,
    <<" ">> \o N_df \o HeadCall,
    N_t \o <<".", "h", "e", "a", "d", "(", "5">>,
    N_df,
    N_udf \o HeadCall,
    N_df \o <<".", "x">> \o HeadCall,
    <<"1", "f">> \o HeadCall,
    <<>> }

\* An entry of the input history: a line of text, or something that is not
\* a string.
HistEntries ==
  {[text |-> TRUE, chars |-> l] : l \in Lines} \cup {[text |-> FALSE, chars |-> <<>>]}

\* ip.user_ns['In']: missing, or a list of entries.
Histories ==
  {[present |-> FALSE, lines |-> <<>>]}
  \cup {[present |-> TRUE, lines |-> h] :
          h \in UNION {[1..n -> HistEntries] : n \in 0..MaxHist}}

\* ip.user_ns: an ordered dict, so a sequence of bindings with distinct names.
Namespaces ==
  {ns \in UNION {[1..n -> [name : Names, val : DOMAIN Objects]] : n \in 0..MaxNs} :
     \A i, j \in DOMAIN ns : i # j => ns[i].name # ns[j].name}

----------------------------------------------------------------------------
(* The dataframe renderer *)

Letters ==
  {"a", "b", "c", "d", "e", "f", "g", "h", "i", "j", "k", "l", "m",
   "n", "o", "p", "q", "r", "s", "t", "u", "v", "w", "x", "y", "z"}

Digits == {"0", "1", "2", "3", "4", "5", "6", "7", "8", "9"}

\* As StartsWith, but finding the prefix anywhere in s.
StartsWith_anywhere(s, prefix) ==
  \E k \in 0..Len(s) :
    /\ k + Len(prefix) <= Len(s)
    /\ SubSeq(s, k + 1, k + Len(prefix)) = prefix

\* str.startswith
StartsWith(s, prefix) ==
  /\ Len(prefix) <= Len(s)
  /\ SubSeq(s, 1, Len(prefix)) = prefix

\* str.isidentifier
IsIdentifier(s) ==
  /\ Len(s) > 0
  /\ s[1] \in Letters \cup {"_"}
  /\ \A i \in 2..Len(s) : s[i] \in Letters \cup Digits \cup {"_"}

\* str.partition(sep) for a one-character separator: split at its first
\* occurrence; without one the whole string is the head.
Partition(s, sep) ==
  IF \E i \in 1..Len(s) : s[i] = sep
  THEN LET k == CHOOSE i \in 1..Len(s) :
                  s[i] = sep /\ \A j \in 1..(i - 1) : s[j] # sep
       IN [head |-> SubSeq(s, 1, k - 1), sep |-> <<sep>>, tail |-> SubSeq(s, k + 1, Len(s))]
  ELSE [head |-> s, sep |-> <<>>, tail |-> <<>>]

\* As Is, but comparing contents.
Is_equal(a, b) == Objects[a].value = Objects[b].value

\* a is b
Is(a, b) == a = b

\* The loop over namespace.items(): the index of the first binding of the
\* object under a name that does not start with an underscore, or 0.
RECURSIVE IdentityScan(_, _, _)
IdentityScan(ns, dataframe, i) ==
  IF i > Len(ns) THEN 0
  ELSE IF Is(dataframe, ns[i].val) /\ ~StartsWith(ns[i].name, <<"_">>) THEN i
  ELSE IdentityScan(ns, dataframe, i + 1)

\* ip.user_ns.get(varname)
NsGet(ns, varname) ==
  IF \E i \in DOMAIN ns : ns[i].name = varname
  THEN ns[CHOOSE i \in DOMAIN ns : ns[i].name = varname].val
  ELSE None

\* isinstance(possible_df, pd.DataFrame)
IsInstanceDataFrame(v) == v # None /\ Objects[v].isDataFrame

NotFound(dataframe) ==
  [raised |-> "none", found |-> FALSE, name |-> <<>>, target |-> dataframe]

\* As ResolveName, but without the substitution dataframe = possible_df.
ResolveName_noSubstitute(ns, hist, dataframe) ==
  LET i == IdentityScan(ns, dataframe, 1) IN
  IF i # 0
  THEN [raised |-> "none", found |-> TRUE, name |-> ns[i].name, target |-> dataframe]
  ELSE IF ~hist.present
  THEN [raised |-> "KeyError", found |-> FALSE, name |-> <<>>, target |-> dataframe]
  ELSE IF Len(hist.lines) = 0
  THEN [raised |-> "IndexError", found |-> FALSE, name |-> <<>>, target |-> dataframe]
  ELSE LET last_line == hist.lines[Len(hist.lines)] IN
       IF ~last_line.text
       THEN [raised |-> "AttributeError", found |-> FALSE, name |-> <<>>,
             target |-> dataframe]
       ELSE LET parts == Partition(last_line.chars, ".") IN
            IF /\ IsIdentifier(parts.head)
               /\ parts.sep # <<>>
               /\ StartsWith(parts.tail, <<"h", "e", "a", "d", "(">>)
            THEN LET possible_df == NsGet(ns, parts.head) IN
                 IF IsInstanceDataFrame(possible_df)
                 THEN [raised |-> "none", found |-> TRUE, name |-> parts.head,
                       target |-> dataframe]
                 ELSE NotFound(dataframe)
            ELSE NotFound(dataframe)

\* The body of `if ip := IPython.get_ipython()`: the name found, the object
\* to summarize, or the exception raised.
ResolveName(ns, hist, dataframe) ==
  LET i == IdentityScan(ns, dataframe, 1) IN
  IF i # 0
  THEN [raised |-> "none", found |-> TRUE, name |-> ns[i].name, target |-> dataframe]
  ELSE IF ~hist.present
  THEN [raised |-> "KeyError", found |-> FALSE, name |-> <<>>, target |-> dataframe]
  ELSE IF Len(hist.lines) = 0
  THEN [raised |-> "IndexError", found |-> FALSE, name |-> <<>>, target |-> dataframe]
  ELSE LET last_line == hist.lines[Len(hist.lines)] IN
       IF ~last_line.text
       THEN [raised |-> "AttributeError", found |-> FALSE, name |-> <<>>,
             target |-> dataframe]
       ELSE LET parts == Partition(last_line.chars, ".") IN
            IF /\ IsIdentifier(parts.head)
               /\ parts.sep # <<>>
               /\ StartsWith(parts.tail, <<"h", "e", "a", "d", "(">>)
            THEN LET possible_df == NsGet(ns, parts.head) IN
                 IF IsInstanceDataFrame(possible_df)
                 THEN [raised |-> "none", found |-> TRUE, name |-> parts.head,
                       target |-> possible_df]
                 ELSE NotFound(dataframe)
            ELSE NotFound(dataframe)

\* As SummarizeDataframe, but refusing at the limits too.
SummarizeDataframe_offByOne(df) ==
  IF Objects[df].lenFails THEN None
  ELSE IF \/ Objects[df].rows >= MAX_DATAFRAME_ROWS
          \/ Objects[df].cols >= MAX_DATAFRAME_COLS
  THEN None
  ELSE IF Objects[df].computeFails THEN None
  ELSE Objects[df].text

\* _summarize_dataframe(df): the text, or None past the limits and on any
\* exception.
SummarizeDataframe(df) ==
  IF Objects[df].lenFails THEN None
  ELSE IF \/ Objects[df].rows > MAX_DATAFRAME_ROWS
          \/ Objects[df].cols > MAX_DATAFRAME_COLS
  THEN None
  ELSE IF Objects[df].computeFails THEN None
  ELSE Objects[df].text

\* _dataframe_intrinsic_repr(dataframe)
DataframeIntrinsicRepr(s, ns, hist, dataframe) ==
  LET base == DictSet(EmptyDict, "type", "dataframe")
      r == IF GetIPython(s) THEN ResolveName(ns, hist, dataframe)
           ELSE NotFound(dataframe)
  IN IF r.raised # "none"
     THEN [raised |-> r.raised, payload |-> EmptyDict]
     ELSE LET named == IF r.found THEN DictSet(base, "variable_name", r.name)
                       ELSE base
              summary == SummarizeDataframe(r.target)
          IN [raised |-> "none",
              payload |-> IF summary # None /\ summary # ""
                          THEN DictSet(named, "summary", summary)
                          ELSE named]

\* The host calls the renderer on the displayed object.
Render ==
  /\ result.raised = "pending"
  /\ result' = DataframeIntrinsicRepr(session, user_ns, In, displayed)
  /\ UNCHANGED <<session, formatters, records, raised, lastCall, pre, inert,
                 registry0, user_ns, In, displayed>>

InitRender ==
  /\ session \in {"none_yet", "present"}
  /\ formatters = [m \in {HTML_MIME_TYPE} |-> IntrinsicTypeFormatter]
  /\ registry0 = formatters
  /\ original_string_formatters = EmptyDict
  /\ original_df_formatters = EmptyDict
  /\ original_dataframe_metadata_formatters = EmptyDict
  /\ raised = "none"
  /\ lastCall = [op |-> "none", f |-> "-", effective |-> FALSE]
  /\ pre = [f \in Features |-> "unset"]
  /\ inert = {}
  /\ user_ns \in Namespaces
  /\ In \in Histories
  /\ session = "none_yet" => (user_ns = <<>> /\ ~In.present)
  /\ displayed \in DOMAIN Objects
  /\ result = [raised |-> "pending", payload |-> EmptyDict]

NextRender == Render

SpecRender == InitRender /\ [][NextRender]_vars

----------------------------------------------------------------------------
(* The string renderer *)

\* As StringIntrinsicRepr, but carrying the string along.
StringIntrinsicRepr_withValue(x) ==
  DictSet(DictSet(EmptyDict, "type", "string"), "value", x)

\* _string_intrinsic_repr(_)
StringIntrinsicRepr(x) == DictSet(EmptyDict, "type", "string")

\* The strings handed to the renderer: '', 'df', 'df.head()'.
StringInputs == {<<>>, N_df, N_df \o HeadCall}

\* The host calls the string renderer on the displayed string.
RenderString ==
  /\ result' = [raised |-> "none", payload |-> StringIntrinsicRepr(displayed)]
  /\ UNCHANGED <<session, formatters, records, raised, lastCall, pre, inert,
                 registry0, user_ns, In, displayed>>

InitString ==
  /\ session \in {"none_yet", "present"}
  /\ formatters \in InitFormatters
  /\ session = "none_yet" => INTRINSIC_MIME_TYPE \notin DOMAIN formatters
  /\ registry0 = formatters
  /\ original_string_formatters = EmptyDict
  /\ original_df_formatters = EmptyDict
  /\ original_dataframe_metadata_formatters = EmptyDict
  /\ raised = "none"
  /\ lastCall = [op |-> "none", f |-> "-", effective |-> FALSE]
  /\ pre = [f \in Features |-> "unset"]
  /\ inert = {}
  /\ user_ns = <<>>
  /\ In = [present |-> FALSE, lines |-> <<>>]
  /\ displayed \in StringInputs
  /\ result = [raised |-> "pending", payload |-> EmptyDict]

NextString ==
  \/ enable_string_repr
  \/ disable_string_repr
  \/ SessionStart
  \/ RenderString

SpecString == InitString /\ [][NextString]_vars

----------------------------------------------------------------------------
(* Properties of the toggles *)

HasRecord(f) == MimeOf(f) \in DOMAIN RecordOf(f)

SavedCallback(f) == RecordOf(f)[MimeOf(f)]

\* Neither dict of the feature's dispatch table holds an entry for its class.
SlotAbsent(f) ==
  MimeOf(f) \in DOMAIN formatters =>
    /\ formatters[MimeOf(f)].type_printers[TypeOf(f)] = ABSENT
    /\ formatters[MimeOf(f)].deferred_printers[TypeOf(f)] = ABSENT

\* C1: after a disable() that undid an enable() (both run with a session
\* present), the callback registered for the feature's slot is the one that
\* was registered before that enable(); when none was, the slot has no entry
\* at all.  The state space holds every number of enable()/disable() cycles.
C1_EnableDisableRestores ==
  \A f \in Features :
    lastCall = [op |-> "disable", f |-> f, effective |-> TRUE] =>
      /\ CurrentCallback(formatters, f) = pre[f]
      /\ pre[f] = None => SlotAbsent(f)

C1_Witness ==
  /\ lastCall = [op |-> "disable", f |-> "string", effective |-> TRUE]
  /\ pre["string"] = "h1"
  /\ CurrentCallback(formatters, "string") = "h1"

\* C2: an enable() of a feature that already has a record changes neither
\* the registry nor any record, and the saved callback stays the one that
\* was registered before the first enable(), never the feature's renderer.
C2_SecondEnableChangesNothing ==
  [][\A f \in Features :
       (lastCall'.op = "enable" /\ lastCall'.f = f /\ HasRecord(f)) =>
         /\ UNCHANGED <<formatters, records>>
         /\ SavedCallback(f)' = pre[f]
         /\ SavedCallback(f)' # Renderer(f)]_vars

C2_Witness ==
  /\ lastCall = [op |-> "enable", f |-> "string", effective |-> FALSE]
  /\ session = "present"
  /\ HasRecord("string")
  /\ SavedCallback("string") = None
  /\ CurrentCallback(formatters, "string") = Renderer("string")

\* C3: a disable() of a feature that has no record changes neither the
\* registry nor any record and raises nothing.
C3_DisableWithoutRecordIsNoOp ==
  [][\A f \in Features :
       (lastCall'.op = "disable" /\ lastCall'.f = f /\ ~HasRecord(f)) =>
         /\ UNCHANGED <<formatters, records>>
         /\ raised' = "none"]_vars

C3_Witness ==
  /\ lastCall = [op |-> "disable", f |-> "df_style", effective |-> FALSE]
  /\ raised = "none"
  /\ ~HasRecord("df_style")
  /\ pre["df_style"] # "unset"

\* C4: no call to enable() or disable() raises, whether or not a session is
\* present at the call.
C4_NoCallRaises == raised = "none"

\* C5: an enable() run while no session is present changes neither the
\* registry (no dispatch table is registered) nor any record and raises
\* nothing; an enable() run later with a session present then creates the
\* record and installs the feature's renderer.
C5_EnableWithoutSessionInert ==
  [][\A f \in Features :
       /\ (lastCall'.op = "enable" /\ lastCall'.f = f /\ session # "present") =>
            /\ UNCHANGED <<formatters, records>>
            /\ raised' = "none"
       /\ (lastCall'.op = "enable" /\ lastCall'.f = f /\ session = "present"
             /\ f \in inert /\ ~HasRecord(f)) =>
            /\ HasRecord(f)'
            /\ CurrentCallback(formatters', f) = Renderer(f)]_vars

C5_Witness ==
  /\ lastCall = [op |-> "enable", f |-> "dataframe_metadata", effective |-> TRUE]
  /\ "dataframe_metadata" \in inert
  /\ HasRecord("dataframe_metadata")
  /\ CurrentCallback(formatters, "dataframe_metadata") = Renderer("dataframe_metadata")

----------------------------------------------------------------------------
(* Properties of the dataframe renderer *)

Rendered == result.raised # "pending"

Returned == result.raised = "none"

\* The bindings of the displayed object itself under a name that does not
\* start with an underscore.
IdentityMatches ==
  {i \in DOMAIN user_ns : user_ns[i].val = displayed /\ user_ns[i].name[1] # "_"}

\* The input history has a last entry and it is text.
HasLastLine ==
  /\ In.present
  /\ Len(In.lines) > 0
  /\ In.lines[Len(In.lines)].text

LastLine == In.lines[Len(In.lines)].chars

FirstDot(line) ==
  CHOOSE i \in 1..Len(line) : line[i] = "." /\ \A j \in 1..(i - 1) : line[j] # "."

\* The line has the form <identifier>.head(...
MatchesHead(line) ==
  /\ \E i \in 1..Len(line) : line[i] = "."
  /\ IsIdentifier(SubSeq(line, 1, FirstDot(line) - 1))
  /\ Len(line) >= FirstDot(line) + 5
  /\ SubSeq(line, FirstDot(line) + 1, FirstDot(line) + 5) = <<"h", "e", "a", "d", "(">>

IdentOf(line) == SubSeq(line, 1, FirstDot(line) - 1)

\* The namespace objects bound to a name.
BoundTo(ident) == {user_ns[i].val : i \in {j \in DOMAIN user_ns : user_ns[j].name = ident}}

\* The fallback applies: no identity match, and the last line names a
\* tabular object of the namespace.
FallbackApplies ==
  /\ session = "present"
  /\ IdentityMatches = {}
  /\ HasLastLine
  /\ MatchesHead(LastLine)
  /\ \E o \in BoundTo(IdentOf(LastLine)) : Objects[o].isDataFrame

FallbackObject == CHOOSE o \in BoundTo(IdentOf(LastLine)) : Objects[o].isDataFrame

Oversized(o) ==
  Objects[o].rows > MAX_DATAFRAME_ROWS \/ Objects[o].cols > MAX_DATAFRAME_COLS

\* The payload carries the summary of object o, or none when o cannot be
\* summarized.
SummaryIsOf(o) ==
  IF ~Objects[o].lenFails /\ ~Oversized(o) /\ ~Objects[o].computeFails
  THEN /\ "summary" \in DOMAIN result.payload
       /\ result.payload["summary"] = Objects[o].text
  ELSE "summary" \notin DOMAIN result.payload

\* C6: the renderer never raises and its payload has "type" == "dataframe",
\* whatever the displayed object, the namespace and the input history.
C6_RenderNeverRaises ==
  Rendered =>
    /\ result.raised = "none"
    /\ "type" \in DOMAIN result.payload
    /\ result.payload["type"] = "dataframe"

\* C7: with no identity match and a last line <identifier>.head(..., the
\* payload names the identifier and carries the summary of the namespace
\* object when the identifier is bound to a tabular object; otherwise it has
\* no variable name and carries the summary of the displayed object.
C7_HeadFallback ==
  (/\ Rendered
   /\ session = "present"
   /\ IdentityMatches = {}
   /\ HasLastLine
   /\ MatchesHead(LastLine)) =>
     IF \E o \in BoundTo(IdentOf(LastLine)) : Objects[o].isDataFrame
     THEN /\ Returned
          /\ "variable_name" \in DOMAIN result.payload
          /\ result.payload["variable_name"] = IdentOf(LastLine)
          /\ SummaryIsOf(FallbackObject)
     ELSE /\ Returned
          /\ "variable_name" \notin DOMAIN result.payload
          /\ SummaryIsOf(displayed)

C7_Witness ==
  /\ Returned
  /\ displayed = "Wide"
  /\ user_ns = <<[name |-> N_df, val |-> "A"]>>
  /\ HasLastLine
  /\ LastLine = N_df \o HeadCall
  /\ result.payload["variable_name"] = N_df
  /\ "summary" \in DOMAIN result.payload
  /\ result.payload["summary"] = Objects["A"].text

\* C8: when the displayed object itself is bound to a name that does not
\* start with an underscore, the payload names the first such name in
\* namespace order and carries the summary of the displayed object, whatever
\* the input history is; a name that starts with an underscore is only ever
\* returned through the last input line.
C8_IdentityScanFirstMatch ==
  /\ (Rendered /\ session = "present" /\ IdentityMatches # {}) =>
       LET first == CHOOSE i \in IdentityMatches : \A j \in IdentityMatches : i <= j
       IN /\ Returned
          /\ "variable_name" \in DOMAIN result.payload
          /\ result.payload["variable_name"] = user_ns[first].name
          /\ SummaryIsOf(displayed)
  /\ (/\ Returned
      /\ "variable_name" \in DOMAIN result.payload
      /\ result.payload["variable_name"][1] = "_") =>
       /\ HasLastLine
       /\ MatchesHead(LastLine)
       /\ result.payload["variable_name"] = IdentOf(LastLine)

C8_Witness ==
  /\ Returned
  /\ displayed = "A"
  /\ user_ns = <<[name |-> N_udf, val |-> "A"], [name |-> N_df, val |-> "A"]>>
  /\ ~In.present
  /\ result.payload["variable_name"] = N_df
  /\ "summary" \in DOMAIN result.payload

\* C9 as stated: a displayed tabular object past either limit gets no
\* summary, whatever the namespace and the last input line are; one exactly
\* at both limits is not refused.
C9_OversizedNeverSummarized ==
  /\ (Returned /\ Objects[displayed].isDataFrame /\ Oversized(displayed)) =>
       "summary" \notin DOMAIN result.payload
  /\ (Returned /\ displayed = "Max" /\ ~FallbackApplies) =>
       "summary" \in DOMAIN result.payload

\* C9: the limits apply to the object that is summarized, which is the
\* displayed object unless the head( fallback substitutes a tabular object
\* of the namespace: past either limit there is no summary, exactly at both
\* limits the summary is not refused.
C9_SummarizedObjectWithinLimits ==
  Returned =>
    LET target == IF FallbackApplies THEN FallbackObject ELSE displayed IN
    /\ (Objects[target].isDataFrame /\ Oversized(target)) =>
         "summary" \notin DOMAIN result.payload
    /\ (/\ Objects[target].rows = MAX_DATAFRAME_ROWS
        /\ Objects[target].cols = MAX_DATAFRAME_COLS
        /\ ~Objects[target].computeFails) =>
         /\ "summary" \in DOMAIN result.payload
         /\ result.payload["summary"] = Objects[target].text

C9_Witness ==
  /\ Returned
  /\ displayed = "Big"
  /\ session = "present"
  /\ user_ns = <<[name |-> N_df, val |-> "Big"]>>
  /\ HasLastLine
  /\ LastLine = N_df \o HeadCall
  /\ "summary" \notin DOMAIN result.payload

\* C10: with no identity match and a last line that is not of the form
\* <identifier>.head(..., the payload has no variable name.
C10_NoPatternNoName ==
  (/\ Rendered
   /\ session = "present"
   /\ IdentityMatches = {}
   /\ HasLastLine
   /\ ~MatchesHead(LastLine)) =>
     /\ Returned
     /\ "variable_name" \notin DOMAIN result.payload

C10_Witness ==
  /\ Returned
  /\ displayed = "B"
  /\ user_ns = <<[name |-> N_df, val |-> "A"]>>
  /\ HasLastLine
  /\ LastLine = <<" ">> \o N_df \o HeadCall
  /\ "variable_name" \notin DOMAIN result.payload

----------------------------------------------------------------------------
(* Properties of the string renderer *)

\* C11: the string renderer returns exactly {"type": "string"}, whatever
\* the string is and whatever the registry and the records hold.
C11_RenderStringConstant ==
  result.raised = "none" =>
    /\ DOMAIN result.payload = {"type"}
    /\ result.payload["type"] = "string"

C11_Witness ==
  /\ result.raised = "none"
  /\ displayed = N_df \o HeadCall
  /\ HasRecord("string")
  /\ CurrentCallback(formatters, "string") = Renderer("string")
  /\ result.payload["type"] = "string"

----------------------------------------------------------------------------
(* Properties of the toggles taken together *)

\* The two dict entries of a feature's slot (both absent without a table).
RawSlot(fmts, g) ==
  IF MimeOf(g) \notin DOMAIN fmts THEN <<ABSENT, ABSENT>>
  ELSE <<fmts[MimeOf(g)].type_printers[TypeOf(g)],
         fmts[MimeOf(g)].deferred_printers[TypeOf(g)]>>

\* C12: a call on one feature leaves the record, the slot entries and the
\* slot callback of every other feature as they were; and once no feature
\* has a record, whatever the order of the calls was, every slot reports
\* the callback it reported at the start.
C12_TogglesIndependent ==
  [][\A f \in Features :
       (lastCall'.op \in {"enable", "disable"} /\ lastCall'.f = f) =>
         /\ \A g \in Features \ {f} :
              /\ RecordOf(g)' = RecordOf(g)
              /\ RawSlot(formatters', g) = RawSlot(formatters, g)
              /\ CurrentCallback(formatters', g) = CurrentCallback(formatters, g)
         /\ (\A g \in Features : ~HasRecord(g)') =>
              \A g \in Features :
                CurrentCallback(formatters', g) = CurrentCallback(registry0, g)]_vars

C12_Witness ==
  /\ lastCall = [op |-> "disable", f |-> "string", effective |-> TRUE]
  /\ pre["string"] = "h1"
  /\ HasRecord("dataframe_metadata")
  /\ SavedCallback("dataframe_metadata") = "h2"
  /\ HasRecord("df_style")
  /\ CurrentCallback(formatters, "dataframe_metadata") = Renderer("dataframe_metadata")

----------------------------------------------------------------------------
(* Properties of the toggles under a host that writes to the registry *)

\* C13: a disable() that finds a record reinstalls the callback saved at
\* the enable(), whatever the host registered for the slot in between (the
\* slot has no entry when None was saved), and drops the record; the next
\* enable() saves the callback the slot reports then.
C13_DisableRestoresSaved ==
  [][\A f \in Features :
       /\ (/\ lastCall' = [op |-> "disable", f |-> f, effective |-> TRUE]
           /\ HasRecord(f)) =>
            /\ ~HasRecord(f)'
            /\ CurrentCallback(formatters', f) = SavedCallback(f)
            /\ SavedCallback(f) = None => SlotAbsent(f)'
       /\ (/\ lastCall' = [op |-> "enable", f |-> f, effective |-> TRUE]
           /\ ~HasRecord(f)) =>
            /\ HasRecord(f)'
            /\ SavedCallback(f)' = CurrentCallback(formatters, f)]_vars

----------------------------------------------------------------------------
(* Properties of the registration of the intrinsic MIME type *)

\* The callbacks a dispatch table holds for a class, in either dict.
TableCallbacks(tbl, t) == {tbl.type_printers[t], tbl.deferred_printers[t]} \ {ABSENT}

\* The class whose entries the last call may rewrite in the intrinsic table.
Touched(call) ==
  IF call.f \in Features /\ call.op \in {"enable", "disable"}
  THEN IF MimeOf(call.f) = INTRINSIC_MIME_TYPE THEN {TypeOf(call.f)} ELSE {}
  ELSE {}

\* C14: a dispatch table for the intrinsic MIME type appears only through an
\* enable() of the string or dataframe-metadata feature run with a session
\* while the registry has none; a table that exists stays, and every call
\* leaves the callbacks it holds for the classes other than the feature's
\* own as they were.
C14_RegistrationIdempotent ==
  [][/\ (/\ INTRINSIC_MIME_TYPE \notin DOMAIN formatters
         /\ INTRINSIC_MIME_TYPE \in DOMAIN formatters') =>
          /\ lastCall'.op = "enable"
          /\ lastCall'.f \in {"string", "dataframe_metadata"}
          /\ session = "present"
          /\ \A t \in Types \ Touched(lastCall') :
               TableCallbacks(formatters'[INTRINSIC_MIME_TYPE], t) = {}
     /\ INTRINSIC_MIME_TYPE \in DOMAIN formatters =>
          /\ INTRINSIC_MIME_TYPE \in DOMAIN formatters'
          /\ \A t \in Types \ Touched(lastCall') :
               TableCallbacks(formatters'[INTRINSIC_MIME_TYPE], t)
                 = TableCallbacks(formatters[INTRINSIC_MIME_TYPE], t)]_vars

C14_Witness ==
  /\ lastCall = [op |-> "enable", f |-> "dataframe_metadata", effective |-> TRUE]
  /\ INTRINSIC_MIME_TYPE \notin DOMAIN registry0
  /\ HasRecord("string")
  /\ formatters[INTRINSIC_MIME_TYPE].type_printers["str"] = Renderer("string")
  /\ formatters[INTRINSIC_MIME_TYPE].deferred_printers["DataFrame"]
       = Renderer("dataframe_metadata")

----------------------------------------------------------------------------
(* Properties of the teardown *)

NoRecordLeft == \A f \in Features : ~HasRecord(f)

\* C15 as stated: starting without a dispatch table for the intrinsic MIME
\* type, once the last enabled feature has been disabled no record remains
\* and the whole registry is the registry of the start.
C15_RegistryFullyRestored ==
  (/\ INTRINSIC_MIME_TYPE \notin DOMAIN registry0
   /\ lastCall.op = "disable"
   /\ lastCall.effective
   /\ NoRecordLeft) =>
     formatters = registry0

\* C15: a disable() that ran with a session drops its record; starting
\* without a dispatch table for the intrinsic MIME type, whenever no record
\* is left every slot reports the callback it reported at the start, while
\* the dispatch table that an enable() registered for the intrinsic MIME
\* type stays in the registry, empty.
C15_SlotsRestoredTableStays ==
  /\ \A f \in Features :
       lastCall = [op |-> "disable", f |-> f, effective |-> TRUE] => ~HasRecord(f)
  /\ (INTRINSIC_MIME_TYPE \notin DOMAIN registry0 /\ NoRecordLeft) =>
       /\ \A f \in Features :
            CurrentCallback(formatters, f) = CurrentCallback(registry0, f)
       /\ DOMAIN formatters =
            DOMAIN registry0
              \cup (IF pre["string"] # "unset" \/ pre["dataframe_metadata"] # "unset"
                    THEN {INTRINSIC_MIME_TYPE} ELSE {})
       /\ INTRINSIC_MIME_TYPE \in DOMAIN formatters =>
            formatters[INTRINSIC_MIME_TYPE] = IntrinsicTypeFormatter

C15_Witness ==
  /\ lastCall = [op |-> "disable", f |-> "dataframe_metadata", effective |-> TRUE]
  /\ INTRINSIC_MIME_TYPE \notin DOMAIN registry0
  /\ NoRecordLeft
  /\ \A f \in Features : pre[f] # "unset"
  /\ formatters[INTRINSIC_MIME_TYPE] = IntrinsicTypeFormatter

\* C16: with a session present, in every state reached by the six toggles a
\* feature has a record exactly when its slot reports the feature's own
\* renderer, each record map holds at most the one key of its MIME type, and
\* a feature without a record reports the callback its slot reported at the
\* start.
C16_RecordIffRendererInstalled ==
  session = "present" =>
    \A f \in Features :
      /\ HasRecord(f) <=> CurrentCallback(formatters, f) = Renderer(f)
      /\ DOMAIN RecordOf(f) \subseteq {MimeOf(f)}
      /\ ~HasRecord(f) =>
           CurrentCallback(formatters, f) = CurrentCallback(registry0, f)

C16_Witness ==
  /\ session = "present"
  /\ lastCall = [op |-> "enable", f |-> "df_style", effective |-> TRUE]
  /\ HasRecord("df_style")
  /\ CurrentCallback(formatters, "df_style") = Renderer("df_style")
  /\ ~HasRecord("string")
  /\ pre["string"] = "h2"
  /\ CurrentCallback(formatters, "string") = "h2"
  /\ HasRecord("dataframe_metadata")

====
